---- MODULE Spec2Model ----
(***************************************************************************)
(* A model of the sview navigation engine: the path matcher (matchView),   *)
(* the dual-buffer reconciler (calculateTree) and the navigation           *)
(* controller (onNavigate) of src/src/utils.ts and                         *)
(* src/src/create.svelte.ts.                                               *)
(*                                                                         *)
(* Strings that the code takes apart are kept in parts:                    *)
(*   - a pathname "/users/42" is the sequence <<"users", "42">> of the     *)
(*     parts that pathname.split('/').slice(1) yields ("/" is <<"">>);     *)
(*   - a route-table key is [lead, parts]: whether it starts with '/',     *)
(*     and its segments, each [paren, kind, name] for "(...)" wrapping,    *)
(*     literal / ":name" / "*name", and the text after the sigil.          *)
(* JavaScript values of several types are tagged records [t |-> ...].      *)
(***************************************************************************)
EXTENDS Integers, Sequences, FiniteSets, TLC

\* ------------------------------------------------------------------ values

Undefined == [t |-> "undefined"]

\* The text JavaScript yields for a missing path part bound to a parameter.
ParamUndefined == "<undefined>"

Lit(s) == [paren |-> FALSE, kind |-> "lit", name |-> s]
Dyn(s) == [paren |-> FALSE, kind |-> "dyn", name |-> s]
Wild(s) == [paren |-> FALSE, kind |-> "wild", name |-> s]
Paren(seg) == [seg EXCEPT !.paren = TRUE]

\* A key that starts with '/', and one that does not ("layout", "*rest").
K(parts) == [lead |-> TRUE, parts |-> parts]
Bare(parts) == [lead |-> FALSE, parts |-> parts]

LayoutKey == Bare(<<Lit("layout")>>)
HooksKey == Bare(<<Lit("hooks")>>)

\* A view component (a function), eagerly or lazily imported.
View(c) == [t |-> "fn", C |-> c, lazy |-> FALSE]
Lazy(c) == [t |-> "fn", C |-> c, lazy |-> TRUE]
\* The array form [component, {params}].
ViewWith(c, ps) == [t |-> "arr", C |-> c, lazy |-> FALSE, params |-> ps]
Table(keys, vals) == [t |-> "views", keys |-> keys, vals |-> vals]
\* A hooks object: which of the four callbacks it defines.
HooksObj(id, bl, dl, dr, ar) ==
    [t |-> "hooks", id |-> id, beforeLoad |-> bl, duringLoad |-> dl,
     duringRender |-> dr, afterRender |-> ar]

Min(x, y) == IF x <= y THEN x ELSE y

\* ------------------------------------------------------------ path matcher

\* views[key]
Lookup(views, key) ==
    IF \E i \in 1..Len(views.keys) : views.keys[i] = key
    THEN views.vals[CHOOSE i \in 1..Len(views.keys) : views.keys[i] = key]
    ELSE Undefined

\* 'layout' in views && views.layout
HasLayout(views) == Lookup(views, LayoutKey).t # "undefined"

\* 'hooks' in views && views.hooks
HasHooks(views) == Lookup(views, HooksKey).t # "undefined"

RECURSIVE Join(_)
\* parts.join('/')
Join(parts) ==
    IF Len(parts) = 0 THEN ""
    ELSE IF Len(parts) = 1 THEN parts[1]
    ELSE parts[1] \o "/" \o Join(Tail(parts))

\* getViewPriority
getViewPriority(view) ==
    IF view.parts = <<Lit("")>> THEN 1
    ELSE IF ~view.lead /\ view.parts[1].kind = "wild" /\ ~view.parts[1].paren THEN 4
    ELSE IF \E i \in 1..Len(view.parts) : view.parts[i].kind = "dyn" THEN 3
    ELSE 2

\* sortViews: toSorted is stable, so equal priorities keep their order.
sortViews(keys) ==
    SelectSeq(keys, LAMBDA k : getViewPriority(k) = 1)
    \o SelectSeq(keys, LAMBDA k : getViewPriority(k) = 2)
    \o SelectSeq(keys, LAMBDA k : getViewPriority(k) = 3)
    \o SelectSeq(keys, LAMBDA k : getViewPriority(k) = 4)

\* The trailing slash is removed, then pathname.split('/').slice(1).
PathParts(pathname) ==
    IF Len(pathname) > 1 /\ pathname[Len(pathname)] = ""
    THEN SubSeq(pathname, 1, Len(pathname) - 1)
    ELSE pathname

\* view.split('/'), without a leading empty part.
ViewParts(view) ==
    IF view.lead THEN view.parts
    ELSE IF view.parts[1] = Lit("") THEN Tail(view.parts)
    ELSE view.parts

\* params[name] = value
SetParam(params, name, value) ==
    [x \in DOMAIN params \cup {name} |-> IF x = name THEN value ELSE params[x]]

\* { ...outer, ...inner }
MergeParams(outer, inner) ==
    [x \in DOMAIN outer \cup DOMAIN inner |->
        IF x \in DOMAIN inner THEN inner[x] ELSE outer[x]]

NoParams == [x \in {} |-> ""]

\* '/' + pathParts.slice(index + 1).join('/'), as parts (idx is index + 1).
NestedPathname(pathParts, idx) ==
    IF idx >= Len(pathParts) THEN <<"">>
    ELSE SubSeq(pathParts, idx + 1, Len(pathParts))

RECURSIVE matchView(_, _)
RECURSIVE ScanViews(_, _, _, _, _)
RECURSIVE ScanParts(_, _, _, _, _)

\* The body of the inner loop for viewParts[idx] (index = idx - 1) and what
\* follows it.  Yields the locals and whether `break outer` was taken.
ScanParts(views, viewParts, idx, pathParts, acc) ==
    IF idx > Len(viewParts) THEN [acc |-> acc, done |-> FALSE]
    ELSE
    LET seg == viewParts[idx]
        bfl == seg.paren
        pathPart == IF idx <= Len(pathParts) THEN pathParts[idx] ELSE ParamUndefined
        a0 == [acc EXCEPT !.breakFromLayouts = bfl]
        a1 == IF seg.kind = "dyn"
              THEN [a0 EXCEPT !.params = SetParam(a0.params, seg.name, pathPart)]
              ELSE a0
    IN
    IF seg.kind = "wild" THEN
        LET p1 == IF seg.name # ""
                  THEN SetParam(a0.params, seg.name,
                                Join(SubSeq(pathParts, idx, Len(pathParts))))
                  ELSE a0.params
            l1 == IF ~bfl /\ HasLayout(views)
                  THEN Append(a0.layouts, Lookup(views, LayoutKey))
                  ELSE a0.layouts
            resolvedPath == [lead |-> idx > 1, parts |-> viewParts]
        IN [acc |-> [a0 EXCEPT !.params = p1, !.layouts = l1,
                               !.match = Lookup(views, resolvedPath)],
            done |-> TRUE]
    ELSE IF seg.kind = "lit" /\ seg.name # pathPart THEN
        [acc |-> a0, done |-> FALSE]
    ELSE IF idx # Len(viewParts) THEN
        ScanParts(views, viewParts, idx + 1, pathParts, a1)
    ELSE
        LET viewMatch == Lookup(views, K(viewParts))
            l2 == IF ~bfl /\ HasLayout(views)
                  THEN Append(a1.layouts, Lookup(views, LayoutKey))
                  ELSE a1.layouts
            h2 == IF HasHooks(views)
                  THEN Append(a1.hooks, Lookup(views, HooksKey))
                  ELSE a1.hooks
            a2 == [a1 EXCEPT !.layouts = l2, !.hooks = h2]
        IN
        IF viewMatch.t \in {"fn", "arr"} THEN
            IF Len(viewParts) = Len(pathParts)
            THEN [acc |-> [a2 EXCEPT !.match = viewMatch], done |-> TRUE]
            ELSE [acc |-> a2, done |-> FALSE]
        ELSE IF viewMatch.t # "views" THEN
            \* Object.keys(undefined) throws a TypeError
            [acc |-> [a2 EXCEPT !.threw = TRUE], done |-> TRUE]
        ELSE
            LET result == matchView(NestedPathname(pathParts, idx), viewMatch)
            IN [acc |-> [a2 EXCEPT
                            !.match = result.match,
                            !.params = MergeParams(a2.params, result.params),
                            !.hooks = a2.hooks \o result.hooks,
                            !.layouts = IF result.breakFromLayouts THEN <<>>
                                        ELSE a2.layouts \o result.layouts,
                            !.threw = result.threw,
                            !.chain = result.chain],
                done |-> TRUE]

\* The outer loop over the sorted keys, from candidate k on.  `chain` is not
\* a value of the code: it records the key on which the loop was left, at
\* this level and at the nested ones, for the properties to read.
ScanViews(views, allViews, k, pathParts, acc) ==
    IF k > Len(allViews) THEN acc
    ELSE
        LET r == ScanParts(views, ViewParts(allViews[k]), 1, pathParts, acc)
        IN IF r.done THEN [r.acc EXCEPT !.chain = <<allViews[k]>> \o @]
           ELSE ScanViews(views, allViews, k + 1, pathParts, r.acc)

\* matchView(pathname, views)
matchView(pathname, views) ==
    ScanViews(views, sortViews(views.keys), 1, PathParts(pathname),
              [match |-> Undefined, layouts |-> <<>>, hooks |-> <<>>,
               params |-> NoParams, breakFromLayouts |-> FALSE, threw |-> FALSE,
               chain |-> <<>>])

\* ---------------------------------------------------------- reconciliation

\* resolveViewComponent: a lazy import resolves to the module's component.
resolveViewComponent(input) == [input EXCEPT !.lazy = FALSE]

\* resolveViewComponents
resolveViewComponents(input) ==
    [i \in 1..Len(input) |-> resolveViewComponent(input[i])]

\* A faulty split that rebuilds the buffer of the second letter: C14 (as
\* amended) does not hold of it.
AfterCycle_SecondLetter(cyc) == IF cyc = "ab" THEN "b" ELSE "a"

\* The letters of a cycle value.
AfterCycle(cyc) == IF cyc = "ab" THEN "a" ELSE "b"
BeforeCycle(cyc) == IF cyc = "ab" THEN "b" ELSE "a"

\* The objects a buffer holds as params, by their identity.
ParamsIds(buffer) ==
    {buffer[i].params.id :
        i \in {i \in 1..Len(buffer) : buffer[i].params.t = "obj"}}

\* An identity that no object of prev has: Object.fromEntries returns a new
\* object at each call.
FreshId(prev) ==
    LET ids == ParamsIds(prev.a) \cup ParamsIds(prev.b) IN
    IF ids = {} THEN 1
    ELSE 1 + CHOOSE x \in ids : \A y \in ids : y <= x

\* A faulty entry that starts from key 0 whatever the copied buffer holds:
\* C27 does not hold of it.
NewEntry_KeyZero(item, keys, idx, params, fresh) ==
    [C |-> item.C,
     key |-> 0,
     params |-> IF item.t = "arr"
                THEN [t |-> "obj",
                      id |-> fresh + idx - 1,
                      v |-> [i \in 1..Len(item.params) |->
                                IF item.params[i] \in DOMAIN params
                                THEN params[item.params[i]] ELSE ParamUndefined]]
                ELSE Undefined]

\* The entry calculateTree builds for next[idx] (idx counts from 1); fresh
\* is the identity of the first object the call makes.
NewEntry(item, keys, idx, params, fresh) ==
    [C |-> item.C,
     key |-> IF idx <= Len(keys) THEN keys[idx] ELSE 0,
     params |-> IF item.t = "arr"
                THEN [t |-> "obj",
                      id |-> fresh + idx - 1,
                      v |-> [i \in 1..Len(item.params) |->
                                IF item.params[i] \in DOMAIN params
                                THEN params[item.params[i]] ELSE ParamUndefined]]
                ELSE Undefined]

\* A comparison that leaves params out: C22 does not hold of it.
EntryDiffers_RefOnly(old, new) == old.C # new.C

\* C or params differ (!==): two params objects are compared by identity,
\* and an object built by this call is identical to none that prev holds.
EntryDiffers(old, new) ==
    old.C # new.C \/ old.params # new.params

\* calculateTree: the tree, and the keys it registers in mountedComponents.
calculateTree(prev, next, cyc, params) ==
    LET afterCycle == AfterCycle(cyc)
        beforeCycle == BeforeCycle(cyc)
        before == prev[beforeCycle]
        keys == [i \in 1..Len(before) |-> before[i].key]
        fresh == [i \in 1..Len(next) |-> NewEntry(next[i], keys, i, params, FreshId(prev))]
        max == Min(Len(before), Len(fresh))
        differ == {i \in 1..max : EntryDiffers(before[i], fresh[i])}
        \* the first position whose key is raised (max + 1 when none differs)
        first == IF differ = {} THEN max + 1
                 ELSE CHOOSE i \in differ : \A j \in differ : i <= j
        after == [i \in 1..Len(fresh) |->
                    IF i >= first THEN [fresh[i] EXCEPT !.key = @ + 1]
                    ELSE fresh[i]]
        tree == IF afterCycle = "a"
                THEN [a |-> after, b |-> before, eq |-> first - 2]
                ELSE [a |-> before, b |-> after, eq |-> first - 2]
    IN [tree |-> tree,
        mounted |-> {<<i - 1, after[i].key>> : i \in 1..Len(after)}]

\* ------------------------------------------------------------- the program

\* getCompKeys(tree, cycle): the '<depth> <key>' strings as pairs; a stable
\* cycle has one letter only and gives no `out`.
getCompKeys(tree, cyc) ==
    LET afterCycle == IF cyc \in {"ab", "a"} THEN "a" ELSE "b"
        beforeCycle == IF cyc = "ab" THEN "b" ELSE "a"
        From(buffer) ==
            {<<i - 1, buffer[i].key>> : i \in (tree.eq + 2)..Len(buffer)}
    IN [in |-> From(tree[afterCycle]),
        out |-> IF cyc \in {"ab", "ba"} THEN From(tree[beforeCycle]) ELSE {}]

\* How many onNavigate calls a run makes.
MaxCalls == 2

\* No path argument: onNavigate() from onMount and from popstate.
NoPath == <<>>

RootHooks == HooksObj("root", TRUE, TRUE, TRUE, TRUE)
UsersHooks == HooksObj("users", TRUE, TRUE, FALSE, TRUE)

\* The route table given to createView: Detail is imported lazily.
views ==
    Table(<<K(<<Lit("")>>), K(<<Lit("users")>>), HooksKey>>,
          <<View("Home"),
            Table(<<K(<<Lit("")>>), K(<<Dyn("id")>>), LayoutKey, HooksKey>>,
                  <<View("List"), Lazy("Detail"), View("Shell"), UsersHooks>>),
            RootHooks>>)

\* The paths navigate() is called with, and the page's first URL.
NavPaths == {<<"">>, <<"users", "42">>}
BootPath == <<"">>

\* The options of a call: search, hash, state and scrollToTop are left out.
NavOptions ==
    {[bypass |-> FALSE, replace |-> FALSE], [bypass |-> FALSE, replace |-> TRUE],
     [bypass |-> TRUE, replace |-> FALSE]}

VARIABLES
    componentTree,          \* componentTree.value
    cycle,                  \* cycle.value
    params,                 \* params.value
    phase,                  \* phase.value
    location,               \* location.pathname, the published snapshot
    navigationIndex,
    pendingNavigationIndex,
    mountedComponents,      \* the keys "depth key" of the registry, as pairs
    firstBoot,
    browser,                \* globalThis.location.pathname
    history,                \* the pushState / replaceState calls made, in order
    calls,                  \* the locals and position of every onNavigate call
    ghost,                  \* bookkeeping per call, read by the properties only
    input,                  \* the arguments of a direct call of an exported function
    output                  \* what that call returned

vars == <<componentTree, cycle, params, phase, location, navigationIndex,
          pendingNavigationIndex, mountedComponents, firstBoot, browser,
          history, calls, ghost, input, output>>

Transitional == {"ab", "ba"}

\* Positions at which a call is suspended, and those where it has returned.
Suspended == {"tickBeforeLoad", "beforeLoad", "resolve", "tickDuringLoad",
              "duringLoad", "tickDuringRender", "duringRender", "tickAfterRender"}
Returned == {"ignored", "rejected", "threw", "beforeLoadFailed",
             "beforeLoadCancelled", "duringLoadFailed", "duringLoadCancelled",
             "done"}

\* No direct call of matchView, sortViews or calculateTree is made or answered.
NoInput == [fn |-> "none"]
NoOutput == [fn |-> "none"]

\* The module's state once it is loaded.
Loaded ==
    /\ componentTree = [a |-> <<>>, b |-> <<>>, eq |-> 0]
    /\ cycle = "a"
    /\ params = NoParams
    /\ phase = "idle"
    /\ location = BootPath
    /\ navigationIndex = 0
    /\ pendingNavigationIndex = 0
    /\ mountedComponents = {}
    /\ firstBoot = TRUE
    /\ browser = BootPath
    /\ history = <<>>
    /\ calls = <<>>
    /\ ghost = <<>>

Init ==
    /\ Loaded
    /\ input = NoInput
    /\ output = NoOutput

\* A faulty guard that tests for one transitional value only: C2 does not
\* hold of it.
Guard_OnlyAB(c) == c = "ab"

\* cycle.value === 'ba' || cycle.value === 'ab'
Guard(c) == c = "ba" \/ c = "ab"

\* prevCycle === 'a' ? 'ba' : 'ab'
NextCycle(prevCycle) == IF prevCycle = "a" THEN "ba" ELSE "ab"

\* cycle.value === 'ba' ? 'b' : 'a'
Collapse(c) == IF c = "ba" THEN "b" ELSE "a"

\* A faulty test that sends a bypass call through the hook phases: C8 does
\* not hold of it.
Bypass_Ignored(options) == FALSE

\* options.bypass
Bypass(options) == options.bypass

\* The key of slot `depth` of a buffer, or Infinity (here -1) without one.
SlotKey(buffer, depth) ==
    IF depth + 1 <= Len(buffer) THEN buffer[depth + 1].key ELSE -1

\* A faulty cleanMountedComponents that deletes nothing: C15 does not hold of
\* it.
cleanMountedComponents_Nothing(registry, tree) == registry

\* cleanMountedComponents: what the registry keeps.
cleanMountedComponents(registry, tree) ==
    {e \in registry :
        LET ka == SlotKey(tree.a, e[1])
            kb == SlotKey(tree.b, e[1])
        IN ~ (/\ ka = -1 \/ e[2] < ka
              /\ kb = -1 \/ e[2] < kb)}

\* The history call of the commit step, when a path was given.
HistoryCall(path, options) ==
    [method |-> IF options.replace THEN "replaceState" ELSE "pushState",
     to |-> path]

Note(n, what) == [ghost EXCEPT ![n].log = @ \cup what]

NoStack == [beforeLoad |-> FALSE, duringLoad |-> FALSE]
NoOptions == [bypass |-> FALSE, replace |-> FALSE]
NoTree == [a |-> <<>>, b |-> <<>>, eq |-> 0]

\* The call's locals once the guard is passed (prevComponentTree is not
\* assigned before line 254).
NewCall(path, options, stk, m, idx) ==
    [pc |-> "tickBeforeLoad", path |-> path, options |-> options, stack |-> stk,
     prevCycle |-> cycle, nextCycle |-> NextCycle(cycle),
     currentNavigationIndex |-> idx,
     match |-> m.match, layouts |-> m.layouts, hooks |-> m.hooks,
     newParams |-> m.params, i |-> 0,
     prevComponentTree |-> NoTree]

\* A call that has returned at `pc`: its locals are gone.
ReturnedCall(pc) ==
    [pc |-> pc, path |-> NoPath, options |-> NoOptions, stack |-> NoStack,
     prevCycle |-> "a", nextCycle |-> "a", currentNavigationIndex |-> 0,
     match |-> Undefined, layouts |-> <<>>, hooks |-> <<>>,
     newParams |-> NoParams, i |-> 0,
     prevComponentTree |-> NoTree]

Return(n, pc) == [calls EXCEPT ![n] = ReturnedCall(pc)]

\* A non-bypass call that reaches the guard is noted on every call that is
\* still before the end of its duringLoad phase: `overtaken` when it is
\* issued, `superseded` when it also takes a ticket.
BeforeDuringLoadSettles ==
    {"tickBeforeLoad", "beforeLoad", "resolve", "tickDuringLoad", "duringLoad"}

NoteIssue(options, accepted, entry) ==
    [n \in 1..Len(calls) |->
        IF ~options.bypass /\ calls[n].pc \in BeforeDuringLoadSettles
        THEN [ghost[n] EXCEPT !.overtaken = TRUE,
                              !.superseded = @ \/ accepted]
        ELSE ghost[n]]
    \o <<entry>>

GhostEntry(options, log) ==
    [bypass |-> options.bypass, overtaken |-> FALSE, superseded |-> FALSE,
     log |-> log]

\* The frames named beforeLoad / duringLoad that the engine may report in the
\* stack of a call made while such a hook is running.
Stacks ==
    [beforeLoad :
        {FALSE} \cup {TRUE : n \in {k \in 1..Len(calls) :
            calls[k].pc = "beforeLoad" /\ calls[k].hooks[calls[k].i].beforeLoad}},
     duringLoad :
        {FALSE} \cup {TRUE : n \in {k \in 1..Len(calls) :
            calls[k].pc = "duringLoad" /\ calls[k].hooks[calls[k].i].duringLoad}}]

\* onNavigate(path, options) up to its first await; `url` is the browser's
\* pathname when the call is made.
Entry(path, options, stk, url) ==
    /\ Len(calls) < MaxCalls
    /\ browser' = IF path # NoPath /\ Bypass(options) /\ ~Guard(cycle)
                     /\ ~matchView(path, views).threw
                  THEN path ELSE url
    /\ IF path = NoPath /\ location = url /\ ~firstBoot
       THEN \* lines 182-185: nothing to do
            /\ calls' = Append(calls, ReturnedCall("ignored"))
            /\ ghost' = Append(ghost, GhostEntry(options, {}))
            /\ UNCHANGED <<componentTree, cycle, params, phase, location,
                           navigationIndex, pendingNavigationIndex,
                           mountedComponents, firstBoot, history>>
       ELSE
       /\ firstBoot' = IF path = NoPath /\ location = url THEN FALSE ELSE firstBoot
       /\ IF Guard(cycle)
          THEN \* line 201
               /\ calls' = Append(calls, ReturnedCall("rejected"))
               /\ ghost' = NoteIssue(options, FALSE, GhostEntry(options, {}))
               /\ UNCHANGED <<componentTree, cycle, params, phase, location,
                              navigationIndex, pendingNavigationIndex,
                              mountedComponents, history>>
          ELSE
          LET matchPath == IF path # NoPath THEN path ELSE url
              m == matchView(matchPath, views)
              idx == navigationIndex + 1
          IN
          /\ navigationIndex' = idx
          /\ IF m.threw
             THEN /\ calls' = Append(calls, ReturnedCall("threw"))
                  /\ ghost' = NoteIssue(options, TRUE, GhostEntry(options, {}))
                  /\ UNCHANGED <<componentTree, cycle, params, phase, location,
                                 pendingNavigationIndex, mountedComponents, history>>
             ELSE IF ~Bypass(options)
             THEN \* lines 221-222
                  /\ phase' = "beforeLoad"
                  /\ calls' = Append(calls, NewCall(path, options, stk, m, idx))
                  /\ ghost' = NoteIssue(options, TRUE, GhostEntry(options, {}))
                  /\ UNCHANGED <<componentTree, cycle, params, location,
                                 pendingNavigationIndex, mountedComponents, history>>
             ELSE \* lines 303-360 in one go: no await on the bypass path
                  /\ history' = IF path # NoPath
                                THEN Append(history, HistoryCall(path, options))
                                ELSE history
                  /\ params' = m.params
                  /\ location' = browser'
                  /\ phase' = "idle"
                  /\ mountedComponents' =
                        cleanMountedComponents(mountedComponents, componentTree)
                  /\ calls' = Append(calls, ReturnedCall("done"))
                  /\ ghost' = NoteIssue(options, TRUE,
                        GhostEntry(options, {"params", "location"}
                            \cup IF path # NoPath THEN {"history"} ELSE {}))
                  /\ UNCHANGED <<componentTree, cycle, pendingNavigationIndex>>

\* navigate(path, options), from the application or from inside a hook.
Navigate(path, options, stk) == Entry(path, options, stk, browser)

\* onMount(() => onNavigate())
OnMount ==
    /\ firstBoot
    /\ Entry(NoPath, NoOptions, NoStack, browser)

\* The URLs back / forward can lead to: the first one and those committed.
Visited == {BootPath} \cup {history[k].to : k \in 1..Len(history)}

\* popstate: the browser has moved to another entry, then onNavigate().
OnPopState(url) ==
    /\ ~firstBoot
    /\ Entry(NoPath, NoOptions, NoStack, url)

\* A faulty staleness test without the ticket comparison: C1 does not hold
\* of it.
Cancelled_TicketIgnored(c, fromHook) ==
    fromHook /\ pendingNavigationIndex + 1 # c.currentNavigationIndex

\* navigationIndex !== currentNavigationIndex ||
\*   (fromHook && pendingNavigationIndex + 1 !== currentNavigationIndex)
Cancelled(c, fromHook) ==
    \/ navigationIndex # c.currentNavigationIndex
    \/ fromHook /\ pendingNavigationIndex + 1 # c.currentNavigationIndex

\* A faulty revertLoading that leaves the reconciled tree in place: C6 does
\* not hold of it.
RevertTree_Kept(c) == componentTree

\* revertLoading()
RevertCycle(c) == c.prevCycle
RevertTree(c) == c.prevComponentTree

\* match ? [...layouts, match] : layouts
ViewChain(c) ==
    IF c.match.t # "undefined" THEN Append(c.layouts, c.match) ELSE c.layouts

\* The beforeLoad loop from hook i on (lines 223-232), then lines 234-249.
RunBeforeLoad(n, i) ==
    LET c == calls[n] IN
    IF i <= Len(c.hooks)
    THEN /\ pendingNavigationIndex' = c.currentNavigationIndex
         /\ calls' = [calls EXCEPT ![n].pc = "beforeLoad", ![n].i = i]
         /\ ghost' = IF c.hooks[i].beforeLoad THEN Note(n, {"beforeLoad"}) ELSE ghost
         /\ UNCHANGED <<componentTree, cycle, params, phase, location,
                        navigationIndex, mountedComponents, firstBoot, browser,
                        history>>
    ELSE IF Cancelled(c, c.stack.beforeLoad)
    THEN /\ phase' = "idle"
         /\ calls' = Return(n, "beforeLoadCancelled")
         /\ UNCHANGED <<componentTree, cycle, params, location, navigationIndex,
                        pendingNavigationIndex, mountedComponents, firstBoot,
                        browser, history, ghost>>
    ELSE /\ calls' = [calls EXCEPT ![n].pc = "resolve", ![n].i = 0]
         /\ UNCHANGED <<componentTree, cycle, params, phase, location,
                        navigationIndex, pendingNavigationIndex,
                        mountedComponents, firstBoot, browser, history, ghost>>

\* The call resumes after `await tick()` of line 222.
AfterTickBeforeLoad(n) ==
    /\ calls[n].pc = "tickBeforeLoad"
    /\ RunBeforeLoad(n, 1)

\* The awaited beforeLoad hook (or the undefined of a level without one)
\* settles without throwing.
BeforeLoadSettles(n) ==
    /\ calls[n].pc = "beforeLoad"
    /\ RunBeforeLoad(n, calls[n].i + 1)

\* A faulty catch block that returns without resetting Phase: C5 does not
\* hold of it.
BeforeLoadThrows_PhaseKept(n) ==
    /\ calls[n].pc = "beforeLoad"
    /\ calls[n].hooks[calls[n].i].beforeLoad
    /\ calls' = Return(n, "beforeLoadFailed")
    /\ UNCHANGED <<componentTree, cycle, params, phase, location,
                   navigationIndex, pendingNavigationIndex, mountedComponents,
                   firstBoot, browser, history, ghost>>

\* A beforeLoad hook throws or rejects (a thrown redirect included).
BeforeLoadThrows(n) ==
    /\ calls[n].pc = "beforeLoad"
    /\ calls[n].hooks[calls[n].i].beforeLoad
    /\ phase' = "idle"
    /\ calls' = Return(n, "beforeLoadFailed")
    /\ UNCHANGED <<componentTree, cycle, params, location, navigationIndex,
                   pendingNavigationIndex, mountedComponents, firstBoot,
                   browser, history, ghost>>

\* resolveViewComponents settles: lines 254-269.
ViewsResolved(n) ==
    LET c == calls[n]
        r == calculateTree(componentTree, resolveViewComponents(ViewChain(c)),
                           c.nextCycle, c.newParams)
    IN
    /\ c.pc = "resolve"
    /\ componentTree' = r.tree
    /\ mountedComponents' = mountedComponents \cup r.mounted
    /\ cycle' = c.nextCycle
    /\ phase' = "duringLoad"
    /\ calls' = [calls EXCEPT ![n].pc = "tickDuringLoad",
                              ![n].prevComponentTree = componentTree]
    /\ ghost' = Note(n, {"calculateTree"})
    /\ UNCHANGED <<params, location, navigationIndex, pendingNavigationIndex,
                   firstBoot, browser, history>>

\* The duringLoad loop from hook i on (lines 271-287), then lines 289-321.
RunDuringLoad(n, i) ==
    LET c == calls[n] IN
    IF i <= Len(c.hooks)
    THEN /\ pendingNavigationIndex' = c.currentNavigationIndex
         /\ calls' = [calls EXCEPT ![n].pc = "duringLoad", ![n].i = i]
         /\ ghost' = IF c.hooks[i].duringLoad THEN Note(n, {"duringLoad"}) ELSE ghost
         /\ UNCHANGED <<componentTree, cycle, params, phase, location,
                        navigationIndex, mountedComponents, firstBoot, browser,
                        history>>
    ELSE IF Cancelled(c, c.stack.duringLoad)
    THEN /\ cycle' = RevertCycle(c)
         /\ componentTree' = RevertTree(c)
         /\ phase' = "idle"
         /\ calls' = Return(n, "duringLoadCancelled")
         /\ ghost' = Note(n, {"revertLoading"})
         /\ UNCHANGED <<params, location, navigationIndex,
                        pendingNavigationIndex, mountedComponents, firstBoot,
                        browser, history>>
    ELSE /\ history' = IF c.path # NoPath
                       THEN Append(history, HistoryCall(c.path, c.options))
                       ELSE history
         /\ browser' = IF c.path # NoPath THEN c.path ELSE browser
         /\ params' = c.newParams
         /\ location' = browser'
         /\ phase' = "duringRender"
         /\ calls' = [calls EXCEPT ![n].pc = "tickDuringRender", ![n].i = 0]
         /\ ghost' = Note(n, {"params", "location"}
                             \cup IF c.path # NoPath THEN {"history"} ELSE {})
         /\ UNCHANGED <<componentTree, cycle, navigationIndex,
                        pendingNavigationIndex, mountedComponents, firstBoot>>

\* The call resumes after `await tick()` of line 269.
AfterTickDuringLoad(n) ==
    /\ calls[n].pc = "tickDuringLoad"
    /\ RunDuringLoad(n, 1)

\* The awaited duringLoad hook settles without throwing.
DuringLoadSettles(n) ==
    /\ calls[n].pc = "duringLoad"
    /\ RunDuringLoad(n, calls[n].i + 1)

\* A duringLoad hook throws or rejects: lines 281-286.
DuringLoadThrows(n) ==
    LET c == calls[n] IN
    /\ c.pc = "duringLoad"
    /\ c.hooks[c.i].duringLoad
    /\ cycle' = RevertCycle(c)
    /\ componentTree' = RevertTree(c)
    /\ phase' = "idle"
    /\ calls' = Return(n, "duringLoadFailed")
    /\ ghost' = Note(n, {"revertLoading"})
    /\ UNCHANGED <<params, location, navigationIndex, pendingNavigationIndex,
                   mountedComponents, firstBoot, browser, history>>

\* The duringRender loop from hook i on (lines 323-336), then lines 337-340.
RunDuringRender(n, i) ==
    LET c == calls[n] IN
    IF i <= Len(c.hooks)
    THEN /\ calls' = [calls EXCEPT ![n].pc = "duringRender", ![n].i = i]
         /\ ghost' = IF c.hooks[i].duringRender THEN Note(n, {"duringRender"})
                     ELSE ghost
         /\ UNCHANGED <<componentTree, cycle, params, phase, location,
                        navigationIndex, pendingNavigationIndex,
                        mountedComponents, firstBoot, browser, history>>
    ELSE /\ cycle' = Collapse(cycle)
         /\ phase' = "afterRender"
         /\ calls' = [calls EXCEPT ![n].pc = "tickAfterRender", ![n].i = 0]
         /\ ghost' = Note(n, {"collapse"})
         /\ UNCHANGED <<componentTree, params, location, navigationIndex,
                        pendingNavigationIndex, mountedComponents, firstBoot,
                        browser, history>>

\* The call resumes after `await tick()` of line 321.
AfterTickDuringRender(n) ==
    /\ calls[n].pc = "tickDuringRender"
    /\ RunDuringRender(n, 1)

\* The awaited duringRender hook settles; what it throws is caught and dropped.
DuringRenderSettles(n) ==
    /\ calls[n].pc = "duringRender"
    /\ RunDuringRender(n, calls[n].i + 1)

\* The call resumes after `await tick()` of line 340: the afterRender hooks
\* are called without await, then lines 357-360.
AfterTickAfterRender(n) ==
    LET c == calls[n] IN
    /\ c.pc = "tickAfterRender"
    /\ phase' = "idle"
    /\ mountedComponents' = cleanMountedComponents(mountedComponents, componentTree)
    /\ calls' = Return(n, "done")
    /\ ghost' = IF \E k \in 1..Len(c.hooks) : c.hooks[k].afterRender
                THEN Note(n, {"afterRender"}) ELSE ghost
    /\ UNCHANGED <<componentTree, cycle, params, location, navigationIndex,
                   pendingNavigationIndex, firstBoot, browser, history>>

Next ==
    \/ \E path \in NavPaths, options \in NavOptions, stk \in Stacks :
          Navigate(path, options, stk) /\ UNCHANGED <<input, output>>
    \/ OnMount /\ UNCHANGED <<input, output>>
    \/ \E url \in Visited : OnPopState(url) /\ UNCHANGED <<input, output>>
    \/ \E n \in 1..Len(calls) :
          /\ UNCHANGED <<input, output>>
          /\ \/ AfterTickBeforeLoad(n)
             \/ BeforeLoadSettles(n)
             \/ BeforeLoadThrows(n)
             \/ ViewsResolved(n)
             \/ AfterTickDuringLoad(n)
             \/ DuringLoadSettles(n)
             \/ DuringLoadThrows(n)
             \/ AfterTickDuringRender(n)
             \/ DuringRenderSettles(n)
             \/ AfterTickAfterRender(n)

Spec == Init /\ [][Next]_vars

\* Call n resumes: the tick it awaits has passed, or the hook promise or the
\* view resolution it awaits has settled (fulfilled or rejected).
Resume(n) ==
    /\ n <= Len(calls)
    /\ UNCHANGED <<input, output>>
    /\ \/ AfterTickBeforeLoad(n)
       \/ BeforeLoadSettles(n)
       \/ BeforeLoadThrows(n)
       \/ ViewsResolved(n)
       \/ AfterTickDuringLoad(n)
       \/ DuringLoadSettles(n)
       \/ DuringLoadThrows(n)
       \/ AfterTickDuringRender(n)
       \/ DuringRenderSettles(n)
       \/ AfterTickAfterRender(n)

\* The program when every promise a call awaits settles in the end: a call
\* that can resume is not left suspended for ever.
SpecSettling == Spec /\ \A n \in 1..MaxCalls : WF_vars(Resume(n))

\* ------------------------------------------------------------- properties

\* Call n exists and takes a step.
Steps(n) == n \in 1..Len(calls) /\ calls'[n] # calls[n]

\* A call is made in this step; it is the last of calls'.
Issued == Len(calls') = Len(calls) + 1

Aborted == {"beforeLoadFailed", "beforeLoadCancelled", "duringLoadFailed",
            "duringLoadCancelled"}

HookNames == {"beforeLoad", "duringLoad", "duringRender", "afterRender"}

\* What a call that ends aborted has done to the shared state: nothing
\* committed, Phase set to idle, ComponentTree untouched by it or put back to
\* the snapshot it took right before its reconciliation.
AbortsCleanly(n) ==
    /\ calls'[n].pc \in BeforeDuringLoadSettles \cup Aborted
    /\ calls'[n].pc \in Aborted =>
          /\ phase' = "idle"
          /\ history' = history
          /\ "history" \notin ghost'[n].log
          /\ IF "calculateTree" \in ghost[n].log
             THEN componentTree' = calls[n].prevComponentTree
             ELSE componentTree' = componentTree

\* C1 (as amended): a call N1 that is still before the end of its duringLoad
\* phase when another non-bypass call passes the guard and takes a ticket
\* never reaches the commit: it ends aborted, with Phase set to idle, no
\* history call, and ComponentTree either never assigned by N1 or restored
\* to the snapshot N1 took right before its own reconciliation.
C1_SupersededCallAborts ==
    [][\A n \in 1..Len(calls) :
          (ghost[n].superseded /\ Steps(n)) => AbortsCleanly(n)]_vars

\* C1 witness: a superseded call that had reconciled and has rolled back.
C1_Witness ==
    \E n \in 1..Len(calls) :
        /\ ghost[n].superseded
        /\ calls[n].pc = "duringLoadCancelled"
        /\ "revertLoading" \in ghost[n].log

\* C1 as stated: any non-bypass call issued before N1's duringLoad phase has
\* settled, accepted or not, makes N1 end aborted.
C1_Original ==
    [][\A n \in 1..Len(calls) :
          (ghost[n].overtaken /\ Steps(n)) => AbortsCleanly(n)]_vars

\* C2: a non-bypass call made while Cycle is 'ab' or 'ba' returns at once: it
\* leaves ComponentTree, Cycle, Phase, params, navigationIndex and the
\* history untouched, and it never runs a hook.
C2_GuardRejects ==
    [][/\ (Issued /\ cycle \in Transitional /\ ~ghost'[Len(calls')].bypass) =>
            /\ calls'[Len(calls')].pc \in {"rejected", "ignored"}
            /\ ghost'[Len(calls')].log = {}
            /\ UNCHANGED <<componentTree, cycle, phase, params, navigationIndex,
                           history>>
       /\ \A n \in 1..Len(calls) :
            calls[n].pc = "rejected" =>
                calls'[n] = calls[n] /\ ghost'[n].log = {}]_vars

\* C2 witness: a non-bypass call was rejected while a transition is in flight.
C2_Witness ==
    \E n \in 1..Len(calls) :
        /\ calls[n].pc = "rejected" /\ ~ghost[n].bypass
        /\ cycle \in Transitional

\* Between setting Cycle to a transitional value and collapsing or rolling
\* it back.
Window == {"tickDuringLoad", "duringLoad", "tickDuringRender", "duringRender"}

\* C3: at most one call at a time is between having set Cycle to 'ab'/'ba'
\* and having collapsed or rolled it back.
C3_NavigationLock ==
    Cardinality({n \in 1..Len(calls) : calls[n].pc \in Window}) <= 1

\* The call resumes after a suspension point of the claim: a hook batch
\* (its last hook settles, or the tick of an empty batch) or the resolution.
EndsBatch(c) ==
    \/ c.pc = "resolve"
    \/ c.pc \in {"beforeLoad", "duringLoad", "duringRender"} /\ c.i = Len(c.hooks)
    \/ c.pc \in {"tickBeforeLoad", "tickDuringLoad", "tickDuringRender"}
          /\ Len(c.hooks) = 0

\* C4: a call whose ticket is no longer navigationIndex when it resumes after
\* a hook batch or after the view resolution aborts, and assigns nothing to
\* ComponentTree, Cycle or the history but the snapshot it restores.
C4_StaleCallAborts ==
    [][\A n \in 1..Len(calls) :
          (/\ Steps(n)
           /\ calls[n].pc \in Suspended
           /\ calls[n].currentNavigationIndex # navigationIndex) =>
              /\ EndsBatch(calls[n]) => calls'[n].pc \in Aborted
              /\ history' = history
              /\ \/ componentTree' = componentTree /\ cycle' = cycle
                 \/ /\ "calculateTree" \in ghost[n].log
                    /\ componentTree' = calls[n].prevComponentTree
                    /\ cycle' = calls[n].prevCycle]_vars

\* C5: when a beforeLoad hook of a call throws, the call returns with
\* ComponentTree, Cycle and the history as they are, Phase set to idle, and
\* having run nothing but beforeLoad hooks; it does nothing afterwards.
C5_BeforeLoadFailure ==
    [][\A n \in 1..Len(calls) :
          /\ (calls[n].pc = "beforeLoad" /\ calls'[n].pc = "beforeLoadFailed") =>
                /\ componentTree' = componentTree
                /\ cycle' = cycle
                /\ history' = history
                /\ phase' = "idle"
                /\ ghost'[n].log \subseteq {"beforeLoad"}
          /\ calls[n].pc = "beforeLoadFailed" =>
                calls'[n] = calls[n] /\ ghost'[n] = ghost[n]]_vars

\* C5 witness: the second beforeLoad hook of a call threw.
C5_Witness ==
    \E n \in 1..Len(calls) :
        /\ calls[n].pc = "beforeLoadFailed"
        /\ ghost[n].log = {"beforeLoad"}
        /\ phase = "idle"

\* C6: when a duringLoad hook throws, the call puts ComponentTree back to the
\* snapshot it took right before its reconciliation and Cycle back to the
\* stable value it read at its start, sets Phase to idle and makes no
\* history call.
C6_DuringLoadRollback ==
    [][\A n \in 1..Len(calls) :
          (calls[n].pc = "duringLoad" /\ calls'[n].pc = "duringLoadFailed") =>
              /\ componentTree' = calls[n].prevComponentTree
              /\ cycle' = calls[n].prevCycle
              /\ calls[n].prevCycle \in {"a", "b"}
              /\ phase' = "idle"
              /\ history' = history
              /\ "history" \notin ghost'[n].log
              /\ "calculateTree" \in ghost[n].log]_vars

\* C6 witness: a duringLoad hook threw after a reconciliation that had
\* changed the tree, and the tree is the empty one of before again.
C6_Witness ==
    \E n \in 1..Len(calls) :
        /\ calls[n].pc = "duringLoadFailed"
        /\ "revertLoading" \in ghost[n].log
        /\ componentTree = NoTree
        /\ cycle = "a"

\* C7: a bypass call made while Cycle is 'ab' or 'ba' is not blocked: it
\* reaches the history / location commit.
C7_BypassNotBlocked ==
    [][(Issued /\ cycle \in Transitional /\ ghost'[Len(calls')].bypass) =>
          /\ calls'[Len(calls')].pc = "done"
          /\ {"history", "location"} \subseteq ghost'[Len(calls')].log]_vars

\* C8: a bypass call runs no hook of any phase and leaves ComponentTree and
\* Cycle as they are; when it is not turned away by the guard it makes the
\* history call and publishes the location, all before it returns.
C8_BypassFrame ==
    [][/\ (Issued /\ ghost'[Len(calls')].bypass) =>
            /\ componentTree' = componentTree
            /\ cycle' = cycle
            /\ calls'[Len(calls')].pc \in {"done", "rejected", "threw"}
            /\ ghost'[Len(calls')].log \cap HookNames = {}
            /\ calls'[Len(calls')].pc = "done" =>
                  /\ Len(history') = Len(history) + 1
                  /\ browser' = history'[Len(history')].to
                  /\ location' = browser'
       /\ \A n \in 1..Len(calls) :
            (ghost[n].bypass /\ calls[n].pc \in Returned) =>
                calls'[n] = calls[n] /\ ghost'[n] = ghost[n]]_vars

\* C8 witness: a bypass call has committed its path.
C8_Witness ==
    \E n \in 1..Len(calls) :
        /\ ghost[n].bypass
        /\ calls[n].pc = "done"
        /\ ghost[n].log = {"params", "location", "history"}
        /\ Len(history) > 0

PhaseEdges ==
    {<<"idle", "beforeLoad">>, <<"beforeLoad", "duringLoad">>,
     <<"duringLoad", "duringRender">>, <<"duringRender", "afterRender">>,
     <<"afterRender", "idle">>, <<"beforeLoad", "idle">>,
     <<"duringLoad", "idle">>}

\* C9: Phase changes only along idle -> beforeLoad -> duringLoad ->
\* duringRender -> afterRender -> idle and the abort edges beforeLoad -> idle
\* and duringLoad -> idle.
C9_PhaseLifecycle ==
    [][phase' = phase \/ <<phase, phase'>> \in PhaseEdges]_vars

CycleEdges ==
    {<<"a", "ba">>, <<"b", "ab">>, <<"ba", "b">>, <<"ab", "a">>,
     <<"ba", "a">>, <<"ab", "b">>}

\* C10: Cycle changes only along a -> ba, b -> ab, ba -> b, ab -> a and the
\* rollback edges ba -> a, ab -> b, and the value a call writes at its
\* collapse is the stable value of the transitional value it set itself.
C10_CycleTransitions ==
    [][/\ cycle' = cycle \/ <<cycle, cycle'>> \in CycleEdges
       /\ \A n \in 1..Len(calls) :
            (Steps(n) /\ calls'[n].pc = "tickAfterRender") =>
                cycle' = Collapse(calls[n].nextCycle)]_vars

\* C11: a navigation N2 made from inside a beforeLoad hook of N1 (the hook's
\* frame is in N2's stack) and still holding the latest ticket is never
\* cancelled by a staleness check: it goes on to the history commit, whether
\* or not its own route levels carry hooks; N1, superseded by it, ends
\* without a commit and without a ComponentTree or Cycle of its own left.
C11_RedirectProceeds ==
    [][\A n \in 1..Len(calls) :
          /\ (/\ Steps(n)
              /\ calls[n].stack.beforeLoad
              /\ navigationIndex = calls[n].currentNavigationIndex)
                => calls'[n].pc \notin {"beforeLoadCancelled", "duringLoadCancelled"}
          /\ (/\ Steps(n)
              /\ ghost[n].superseded
              /\ \E m \in 1..Len(calls) : calls[m].stack.beforeLoad)
                => AbortsCleanly(n)]_vars

\* C12: in every reachable ComponentTree value, the first one included, eq
\* lies in [-1, min(len(a), len(b)) - 1].
C12_EqRange ==
    /\ componentTree.eq >= -1
    /\ componentTree.eq <= Min(Len(componentTree.a), Len(componentTree.b)) - 1

\* ------------------------------------------- navigations made one at a time

\* How many navigations such a run makes.
MaxNavigations == 4

\* The paths of these navigations: a one-node chain and two two-node chains.
AwaitedPaths == {<<"">>, <<"users">>, <<"users", "42">>}

\* onNavigate(path) from its call to its return (lines 179-360) when no other
\* call is in flight, no hook throws and the call is not a bypass: every
\* staleness test fails, so the call reconciles, commits, collapses Cycle and
\* cleans the registry.
AwaitedNavigate(path) ==
    LET m == matchView(path, views)
        idx == navigationIndex + 1
        nextCycle == NextCycle(cycle)
        chain == IF m.match.t # "undefined" THEN Append(m.layouts, m.match)
                 ELSE m.layouts
        r == calculateTree(componentTree, resolveViewComponents(chain),
                           nextCycle, m.params)
        ran == {h \in HookNames : \E k \in 1..Len(m.hooks) : m.hooks[k][h]}
    IN
    /\ navigationIndex < MaxNavigations
    /\ \A n \in 1..Len(calls) : calls[n].pc \in Returned
    /\ ~Guard(cycle)
    /\ ~m.threw
    /\ navigationIndex' = idx
    /\ pendingNavigationIndex' =
          IF Len(m.hooks) > 0 THEN idx ELSE pendingNavigationIndex
    /\ componentTree' = r.tree
    /\ cycle' = Collapse(nextCycle)
    /\ history' = Append(history, HistoryCall(path, NoOptions))
    /\ browser' = path
    /\ params' = m.params
    /\ location' = path
    /\ phase' = "idle"
    /\ mountedComponents' =
          cleanMountedComponents(mountedComponents \cup r.mounted, r.tree)
    /\ calls' = Append(calls, ReturnedCall("done"))
    /\ ghost' = Append(ghost,
          GhostEntry(NoOptions, ran \cup {"calculateTree", "collapse", "params",
                                          "location", "history"}))
    /\ UNCHANGED <<firstBoot, input, output>>

NextAwaited == \E path \in AwaitedPaths : AwaitedNavigate(path)

SpecAwaited == Init /\ [][NextAwaited]_vars

\* C13: for each buffer and each slot index, the key a buffer holds at that
\* index after a reconciliation is never smaller than the key it held there
\* before it.
C13_KeyMonotonic ==
    [][/\ \A i \in 1..Min(Len(componentTree.a), Len(componentTree'.a)) :
            componentTree'.a[i].key >= componentTree.a[i].key
       /\ \A i \in 1..Min(Len(componentTree.b), Len(componentTree'.b)) :
            componentTree'.b[i].key >= componentTree.b[i].key]_vars

\* ------------------------------------------------ calculateTree called alone

\* The longest buffer and node list given to calculateTree.
MaxDepth == 2

\* All sequences over S of length at most n.
SeqsUpTo(S, n) == UNION {[1..k -> S] : k \in 0..n}

TreeComponents == {"X", "Y"}
TreeKeys == {0, 1}

\* A params object that an earlier call built for [X, { params: ['id'] }]
\* at the path /users/42.
TreeParams == [t |-> "obj", id |-> 1, v |-> <<"42">>]

\* The entries of prev: { C, key } without params, and { C, key, params }.
TreeEntries ==
    [C : TreeComponents, key : TreeKeys, params : {Undefined}]
        \cup [C : {"X"}, key : TreeKeys, params : {TreeParams}]

\* The buffer of prev that the call copies.
TreeBuffers == SeqsUpTo(TreeEntries, MaxDepth)

\* The buffer of prev that the call discards and rebuilds.
TreeDiscarded ==
    SeqsUpTo({[C |-> "X", key |-> 0, params |-> Undefined]}, MaxDepth)

\* prev.eq
TreeEqs == {-1, 0}

\* The nodes given as next: components, and [X, { params: ['id'] }].
TreeNodes == {View(c) : c \in TreeComponents} \cup {ViewWith("X", <<"id">>)}

TreeInputs ==
    [fn : {"calculateTree"},
     prev : [a : TreeDiscarded, b : TreeBuffers, eq : TreeEqs],
     next : SeqsUpTo(TreeNodes, MaxDepth),
     cycle : {"ab"},
     params : {SetParam(NoParams, "id", "42")}]
    \cup
    [fn : {"calculateTree"},
     prev : [a : TreeBuffers, b : TreeDiscarded, eq : TreeEqs],
     next : SeqsUpTo(TreeNodes, MaxDepth),
     cycle : {"ba"},
     params : {SetParam(NoParams, "id", "42")}]

InitTree ==
    /\ Loaded
    /\ input \in TreeInputs
    /\ output = NoOutput

\* calculateTree({ prev, next, cycle, params }): its result, and the entries
\* it adds to mountedComponents.
CallCalculateTree ==
    LET r == calculateTree(input.prev, input.next, input.cycle, input.params) IN
    /\ input.fn = "calculateTree"
    /\ output = NoOutput
    /\ output' = [fn |-> "calculateTree", value |-> r.tree]
    /\ mountedComponents' = mountedComponents \cup r.mounted
    /\ UNCHANGED <<componentTree, cycle, params, phase, location,
                   navigationIndex, pendingNavigationIndex, firstBoot, browser,
                   history, calls, ghost, input>>

SpecTree == InitTree /\ [][CallCalculateTree]_vars

\* The first and the second letter of a direction.
FirstLetter(direction) == IF direction = "ab" THEN "a" ELSE "b"
SecondLetter(direction) == IF direction = "ab" THEN "b" ELSE "a"

\* C14 (as amended): for direction 'ab' (resp. 'ba') the buffer named by the
\* SECOND letter is returned identical to prev's buffer of that letter, and
\* the buffer named by the FIRST letter is the one built from nextNodes, each
\* slot with the key prev's second-letter buffer holds at that index (0 where
\* it has none), raised by one or not.
C14_FirstLetterRebuilt ==
    output.fn = "calculateTree" =>
        LET rebuilt == output.value[FirstLetter(input.cycle)]
            kept == input.prev[SecondLetter(input.cycle)]
        IN /\ output.value[SecondLetter(input.cycle)] = kept
           /\ Len(rebuilt) = Len(input.next)
           /\ \A i \in 1..Len(rebuilt) :
                /\ rebuilt[i].C = input.next[i].C
                /\ rebuilt[i].key - (IF i <= Len(kept) THEN kept[i].key ELSE 0)
                      \in {0, 1}

\* C14 witness: the call of Scenario C, which returns a = [{Y, key 1}] and
\* b = [].
C14_Witness ==
    /\ input.fn = "calculateTree"
    /\ input.prev.a = <<[C |-> "X", key |-> 0, params |-> Undefined]>>
    /\ input.prev.b = <<>>
    /\ input.next = <<View("Y")>>
    /\ input.cycle = "ab"
    /\ output.fn = "calculateTree"
    /\ output.value = [a |-> <<[C |-> "Y", key |-> 1, params |-> Undefined]>>,
                       b |-> <<>>, eq |-> -1]

\* C14 as stated: the buffer of the first letter is returned identical to
\* prev's and the buffer of the second letter is built from nextNodes.
C14_Original ==
    output.fn = "calculateTree" =>
        LET built == output.value[SecondLetter(input.cycle)] IN
        /\ output.value[FirstLetter(input.cycle)]
              = input.prev[FirstLetter(input.cycle)]
        /\ Len(built) = Len(input.next)
        /\ \A i \in 1..Len(built) : built[i].C = input.next[i].C

\* The keys the two buffers of a tree hold at a depth.
KeysAt(tree, depth) ==
    {tree.a[i].key : i \in {depth + 1} \cap (1..Len(tree.a))}
    \cup {tree.b[i].key : i \in {depth + 1} \cap (1..Len(tree.b))}

\* A registry entry (depth, key) is behind the smallest key the buffers hold
\* at that depth; with no slot in either buffer every entry is behind.
Behind(e, tree) == \A k \in KeysAt(tree, e[1]) : e[2] < k

\* A navigation takes its final step (line 358 and the return).
Completes ==
    \E n \in 1..Len(calls') :
        /\ calls'[n].pc = "done"
        /\ n <= Len(calls) => calls[n].pc # "done"

\* C15: right after the final step of a navigation that runs to completion
\* the registry holds no entry (depth, key) that is behind the smallest key
\* the buffers a and b hold at that depth, and every entry it held before
\* that is not behind it is still there.
C15_RegistryPurged ==
    [][Completes =>
          /\ \A e \in mountedComponents' : ~Behind(e, componentTree')
          /\ \A e \in mountedComponents :
                ~Behind(e, componentTree') => e \in mountedComponents']_vars

\* C15 witness: navigations have completed and the entry (0, 1) that the
\* first reconciliation registers has been purged.
C15_Witness ==
    /\ Len(calls) >= 2
    /\ \A n \in 1..Len(calls) : calls[n].pc = "done"
    /\ mountedComponents # {}
    /\ <<0, 1>> \notin mountedComponents
    /\ Behind(<<0, 1>>, componentTree)

\* ---------------------------------------------------- matchView called alone

\* The longest pathname given to matchView, in parts.
MaxPathLen == 3

PathSegments == {"", "users", "42", "files", "admin", "a", "b", "x"}

\* Every pathname of one to MaxPathLen parts: "/", "/users/42", "/a//b", ...
MatchPaths == SeqsUpTo(PathSegments, MaxPathLen) \ {<<>>}

LevelHooks(id) == HooksObj(id, TRUE, FALSE, FALSE, FALSE)

\* {"/": Home, "/users": {"/": List, "/:id": Detail, layout: Shell}}
UsersTable ==
    Table(<<K(<<Lit("")>>), K(<<Lit("users")>>)>>,
          <<View("Home"),
            Table(<<K(<<Lit("")>>), K(<<Dyn("id")>>), LayoutKey>>,
                  <<View("List"), View("Detail"), View("Shell")>>)>>)

\* {"/files": {"*rest": Viewer}}
FilesTable ==
    Table(<<K(<<Lit("files")>>)>>,
          <<Table(<<Bare(<<Wild("rest")>>)>>, <<View("Viewer")>>)>>)

\* {"/files": {"*rest": Viewer, hooks: inner}, hooks: outer}
FilesHooksTable ==
    Table(<<K(<<Lit("files")>>), HooksKey>>,
          <<Table(<<Bare(<<Wild("rest")>>), HooksKey>>,
                  <<View("Viewer"), LevelHooks("inner")>>),
            LevelHooks("outer")>>)

\* {"/:a/x": Pair, "/:b": Single}
SiblingsTable ==
    Table(<<K(<<Dyn("a"), Lit("x")>>), K(<<Dyn("b")>>)>>,
          <<View("Pair"), View("Single")>>)

\* {"/x": {"/:id": Detail, "*rest": NotFound, layout: Shell, hooks: inner},
\*  hooks: outer}
CatchAllTable ==
    Table(<<K(<<Lit("x")>>), HooksKey>>,
          <<Table(<<K(<<Dyn("id")>>), Bare(<<Wild("rest")>>), LayoutKey, HooksKey>>,
                  <<View("Detail"), View("NotFound"), View("Shell"),
                    LevelHooks("inner")>>),
            LevelHooks("outer")>>)

\* {"/a": A, "/a/b": B, hooks: outer}
PrefixTable ==
    Table(<<K(<<Lit("a")>>), K(<<Lit("a"), Lit("b")>>), HooksKey>>,
          <<View("A"), View("B"), LevelHooks("outer")>>)

\* {"/admin": {"/(x)": {"/": Leaf, layout: Inner}, "/b": Board, layout: Admin},
\*  layout: Root}
BreakTable ==
    Table(<<K(<<Lit("admin")>>), LayoutKey>>,
          <<Table(<<K(<<Paren(Lit("x"))>>), K(<<Lit("b")>>), LayoutKey>>,
                  <<Table(<<K(<<Lit("")>>), LayoutKey>>,
                          <<View("Leaf"), View("Inner")>>),
                    View("Board"), View("Admin")>>),
            View("Root")>>)

\* {"/admin": {"/(b)": Login, "(*rest)": Bare, layout: Admin, hooks: inner},
\*  layout: Root, hooks: outer}
ParenTable ==
    Table(<<K(<<Lit("admin")>>), LayoutKey, HooksKey>>,
          <<Table(<<K(<<Paren(Lit("b"))>>), Bare(<<Paren(Wild("rest"))>>),
                    LayoutKey, HooksKey>>,
                  <<View("Login"), View("Plain"), View("Admin"),
                    LevelHooks("inner")>>),
            View("Root"), LevelHooks("outer")>>)

MatchTables ==
    {UsersTable, FilesTable, FilesHooksTable, SiblingsTable, CatchAllTable,
     PrefixTable, BreakTable, ParenTable}

MatchInputs == [fn : {"matchView"}, pathname : MatchPaths, views : MatchTables]

InitMatch ==
    /\ Loaded
    /\ input \in MatchInputs
    /\ output = NoOutput

\* matchView(pathname, views)
CallMatchView ==
    /\ input.fn = "matchView"
    /\ output = NoOutput
    /\ output' = [fn |-> "matchView",
                  value |-> matchView(input.pathname, input.views)]
    /\ UNCHANGED <<componentTree, cycle, params, phase, location,
                   navigationIndex, pendingNavigationIndex, mountedComponents,
                   firstBoot, browser, history, calls, ghost, input>>

SpecMatch == InitMatch /\ [][CallMatchView]_vars

\* A call of matchView has returned a match; `won` is the chain of keys it
\* was found through, outermost first.
Matched ==
    /\ output.fn = "matchView"
    /\ ~output.value.threw
    /\ output.value.match.t # "undefined"

RECURSIVE Offset(_, _)
\* How many path parts the keys above level l of a chain take.
Offset(chain, l) ==
    IF l = 1 THEN 0
    ELSE Offset(chain, l - 1) + Len(ViewParts(chain[l - 1]))

RECURSIVE LevelTable(_, _, _)
\* The table of level l of a chain.
LevelTable(table, chain, l) ==
    IF l = 1 THEN table
    ELSE Lookup(LevelTable(table, chain, l - 1), chain[l - 1])

\* The places of a chain's segments: level l, and index j in that key.
ChainSegments(chain) ==
    UNION {{[l |-> l, j |-> j] : j \in 1..Len(ViewParts(chain[l]))} :
              l \in 1..Len(chain)}

SegmentAt(chain, p) == ViewParts(chain[p.l])[p.j]

\* The ':name' and '*name' segments of a chain.
NamedSegments(chain) ==
    {p \in ChainSegments(chain) :
        /\ SegmentAt(chain, p).kind \in {"dyn", "wild"}
        /\ SegmentAt(chain, p).name # ""}

\* The path segment at the place of a chain's segment ("" past the end), for
\* a wildcard the segments from there on joined by '/'.
BoundText(chain, p, pathParts) ==
    LET pos == Offset(chain, p.l) + p.j IN
    IF pos > Len(pathParts) THEN ""
    ELSE IF SegmentAt(chain, p).kind = "wild"
         THEN Join(SubSeq(pathParts, pos, Len(pathParts)))
         ELSE pathParts[pos]

RECURSIVE LevelLayouts(_, _, _)
\* The layouts of the levels l, l + 1, ... of a chain, outer to inner.
LevelLayouts(table, chain, l) ==
    IF l > Len(chain) THEN <<>>
    ELSE (IF HasLayout(LevelTable(table, chain, l))
          THEN <<Lookup(LevelTable(table, chain, l), LayoutKey)>>
          ELSE <<>>) \o LevelLayouts(table, chain, l + 1)

\* A chain has a "(...)" segment.
HasBreak(chain) == \E p \in ChainSegments(chain) : SegmentAt(chain, p).paren

\* C16: when matchView succeeds through nested tables, each ':name' segment
\* of the winning chain binds params[name] to the path segment at its place
\* and each '*name' segment to the rest of the path joined by '/', and (with
\* no "(...)" segment in the chain) layouts lists the layouts of the levels
\* gone through, outer to inner, once each; "/users/42" in the users table
\* gives Detail, {id: "42"}, [Shell] and "/files/a/b" in the files table
\* gives Viewer, {rest: "a/b"}.
C16_MatchBinding ==
    (Matched /\ Len(output.value.chain) > 1) =>
        LET r == output.value
            pathParts == PathParts(input.pathname)
        IN /\ \A p \in NamedSegments(r.chain) :
                /\ SegmentAt(r.chain, p).name \in DOMAIN r.params
                /\ r.params[SegmentAt(r.chain, p).name]
                      = BoundText(r.chain, p, pathParts)
           /\ ~HasBreak(r.chain) =>
                r.layouts = LevelLayouts(input.views, r.chain, 1)

\* The two scenarios of C16 come out as stated.
C16_Scenarios ==
    /\ (Matched /\ input.views = UsersTable /\ input.pathname = <<"users", "42">>) =>
          /\ output.value.match = View("Detail")
          /\ output.value.params = [n \in {"id"} |-> "42"]
          /\ output.value.layouts = <<View("Shell")>>
    /\ (Matched /\ input.views = FilesTable /\ input.pathname = <<"files", "a", "b">>) =>
          /\ output.value.match = View("Viewer")
          /\ output.value.params = [n \in {"rest"} |-> "a/b"]

\* C17: the keys of the params matchView returns are exactly the names of
\* the ':name' and '*name' segments of the winning chain, also when a
\* sibling pattern with a ':name' segment was tried and rejected first.
C17_ParamsExact ==
    Matched =>
        DOMAIN output.value.params =
            {SegmentAt(output.value.chain, p).name :
                p \in NamedSegments(output.value.chain)}

RECURSIVE ChainHooks(_, _, _)
\* The hooks entries of the levels l, l + 1, ... of a chain, outer to inner.
ChainHooks(table, chain, l) ==
    IF l > Len(chain) THEN <<>>
    ELSE (IF HasHooks(LevelTable(table, chain, l))
          THEN <<Lookup(LevelTable(table, chain, l), HooksKey)>>
          ELSE <<>>) \o ChainHooks(table, chain, l + 1)

\* C18: the hooks matchView returns are the hooks entries of the levels the
\* match was found through, once per level, ancestors first, whatever kind
\* of segment (literal, dynamic, wildcard, layout-breaking) led to the match.
C18_HooksPerLevel ==
    Matched =>
        output.value.hooks = ChainHooks(input.views, output.value.chain, 1)

\* C19: when the winning candidate resolves to a nested table, the layouts
\* returned are the nested result's layouts alone if that result signalled
\* a layout break, and otherwise this level's layout followed by the nested
\* result's layouts; a match under a "(...)" segment carries no layout of a
\* level above that segment.
C19_LayoutMerge ==
    (Matched /\ Len(output.value.chain) > 1) =>
        LET r == output.value
            first == ViewParts(r.chain[1])
            nested == matchView(NestedPathname(PathParts(input.pathname), Len(first)),
                                Lookup(input.views, r.chain[1]))
            outer == IF ~first[Len(first)].paren /\ HasLayout(input.views)
                     THEN <<Lookup(input.views, LayoutKey)>> ELSE <<>>
        IN /\ r.layouts = IF nested.breakFromLayouts THEN nested.layouts
                          ELSE outer \o nested.layouts
           /\ \A p \in ChainSegments(r.chain) :
                SegmentAt(r.chain, p).paren =>
                    \A l \in 1..(p.l - 1) :
                        HasLayout(LevelTable(input.views, r.chain, l)) =>
                            \A k \in 1..Len(r.layouts) :
                                r.layouts[k] #
                                    Lookup(LevelTable(input.views, r.chain, l), LayoutKey)

\* ---------------------------------------------------- sortViews called alone

\* The longest list of keys given to sortViews.
MaxKeys == 3

\* "/", "", "/users", "/about", "/:id", "/users/:id", "*rest", "(*rest)" and
\* "layout".
SortKeys ==
    {K(<<Lit("")>>), Bare(<<Lit("")>>), K(<<Lit("users")>>), K(<<Lit("about")>>),
     K(<<Dyn("id")>>), K(<<Lit("users"), Dyn("id")>>), Bare(<<Wild("rest")>>),
     Bare(<<Paren(Wild("rest"))>>), LayoutKey}

\* Object.keys(views): no key twice.
SortInputs ==
    [fn : {"sortViews"},
     views : {ks \in SeqsUpTo(SortKeys, MaxKeys) :
                \A i, j \in 1..Len(ks) : ks[i] = ks[j] => i = j}]

InitSort ==
    /\ Loaded
    /\ input \in SortInputs
    /\ output = NoOutput

\* sortViews(views)
CallSortViews ==
    /\ input.fn = "sortViews"
    /\ output = NoOutput
    /\ output' = [fn |-> "sortViews", value |-> sortViews(input.views)]
    /\ UNCHANGED <<componentTree, cycle, params, phase, location,
                   navigationIndex, pendingNavigationIndex, mountedComponents,
                   firstBoot, browser, history, calls, ghost, input>>

SpecSort == InitSort /\ [][CallSortViews]_vars

\* The four tiers: root 1, static literal 2, with a ':' segment 3, wildcard
\* ("*name" or "(*name)") 4.
Tier(key) ==
    IF key.parts = <<Lit("")>> THEN 1
    ELSE IF ~key.lead /\ key.parts[1].kind = "wild" THEN 4
    ELSE IF \E i \in 1..Len(key.parts) : key.parts[i].kind = "dyn" THEN 3
    ELSE 2

\* C20: sortViews returns a permutation of its keys in which root keys come
\* before static ones, those before keys with a ':' segment, those before
\* wildcard keys ("(*name)" included), and keys of one tier keep the order
\* they were given in.
C20_PriorityOrder ==
    output.fn = "sortViews" =>
        LET given == input.views
            sorted == output.value
        IN /\ Len(sorted) = Len(given)
           /\ {sorted[i] : i \in 1..Len(sorted)} = {given[i] : i \in 1..Len(given)}
           /\ \A i, j \in 1..Len(sorted) :
                i < j => Tier(sorted[i]) <= Tier(sorted[j])
           /\ \A t \in 1..4 :
                SelectSeq(sorted, LAMBDA k : Tier(k) = t)
                    = SelectSeq(given, LAMBDA k : Tier(k) = t)

\* ------------------------------------- constructPath, then matchView, alone

\* Here a string that constructPath edits is the sequence of its characters.

\* The longest parameter value given to constructPath, in characters.
MaxValueLen == 2

\* The characters of the words the patterns are made of.
Letters ==
    [users |-> <<"u", "s", "e", "r", "s">>, items |-> <<"i", "t", "e", "m", "s">>,
     pairs |-> <<"p", "a", "i", "r", "s">>, files |-> <<"f", "i", "l", "e", "s">>,
     id |-> <<"i", "d">>, idx |-> <<"i", "d", "x">>,
     rest |-> <<"r", "e", "s", "t">>]

\* The text of a segment and of a key, as written in the route table.
SegmentText(seg) ==
    LET sigil == IF seg.kind = "dyn" THEN <<":">>
                 ELSE IF seg.kind = "wild" THEN <<"*">> ELSE <<>>
        inner == sigil \o (IF seg.name = "" THEN <<>> ELSE Letters[seg.name])
    IN IF seg.paren THEN <<"(">> \o inner \o <<")">> ELSE inner

RECURSIVE JoinText(_)
JoinText(parts) ==
    IF Len(parts) = 0 THEN <<>>
    ELSE IF Len(parts) = 1 THEN SegmentText(parts[1])
    ELSE SegmentText(parts[1]) \o <<"/">> \o JoinText(Tail(parts))

KeyText(key) == (IF key.lead THEN <<"/">> ELSE <<>>) \o JoinText(key.parts)

RECURSIVE Str(_)
\* The string of a sequence of characters.
Str(chars) == IF Len(chars) = 0 THEN "" ELSE chars[1] \o Str(Tail(chars))

\* Where pattern first occurs in text (0 if nowhere).
IndexOf(text, pattern) ==
    LET at == {i \in 1..(Len(text) - Len(pattern) + 1) :
                  SubSeq(text, i, i + Len(pattern) - 1) = pattern}
    IN IF at = {} THEN 0 ELSE CHOOSE i \in at : \A j \in at : i <= j

\* text.replace(pattern, replacement) with a string pattern: the first
\* occurrence only.
Replace(text, pattern, replacement) ==
    LET i == IndexOf(text, pattern) IN
    IF i = 0 THEN text
    ELSE SubSeq(text, 1, i - 1) \o replacement
         \o SubSeq(text, i + Len(pattern), Len(text))

RECURSIVE constructPath(_, _)
\* constructPath(path, params): params is the object's entries in the order
\* `for (const key in params)` visits them.
constructPath(path, entries) ==
    IF Len(entries) = 0 THEN path
    ELSE constructPath(
            Replace(path, <<":">> \o Letters[entries[1].key], entries[1].value),
            Tail(entries))

RECURSIVE Split(_)
\* text.split('/'), each part as a string.
Split(text) ==
    LET i == IndexOf(text, <<"/">>) IN
    IF i = 0 THEN <<Str(text)>>
    ELSE <<Str(SubSeq(text, 1, i - 1))>> \o Split(SubSeq(text, i + 1, Len(text)))

\* {"/users/:id": User, "/items/:id/:idx": Item, "/pairs/:idx/:id": Pair,
\*  "/files/*rest": Viewer}
PatternsTable ==
    Table(<<K(<<Lit("users"), Dyn("id")>>),
            K(<<Lit("items"), Dyn("id"), Dyn("idx")>>),
            K(<<Lit("pairs"), Dyn("idx"), Dyn("id")>>),
            K(<<Lit("files"), Wild("rest")>>)>>,
          <<View("User"), View("Item"), View("Pair"), View("Viewer")>>)

\* The parameter values: the texts of one to MaxValueLen characters.
ParamValues == SeqsUpTo({"1", "x"}, MaxValueLen) \ {<<>>}

\* The names of the ':name' and '*name' segments of a key.
NamesOf(key) ==
    {key.parts[j].name :
        j \in {j \in 1..Len(key.parts) : key.parts[j].kind \in {"dyn", "wild"}}}

\* The params objects for a key: a value for each name, in any key order.
ParamsFor(key) ==
    {es \in [1..Cardinality(NamesOf(key)) -> [key : NamesOf(key), value : ParamValues]] :
        \A i, j \in 1..Len(es) : es[i].key = es[j].key => i = j}

PathInputs ==
    UNION {[fn : {"constructPath"}, pattern : {PatternsTable.keys[k]},
            params : ParamsFor(PatternsTable.keys[k]), views : {PatternsTable}] :
              k \in 1..Len(PatternsTable.keys)}

InitPath ==
    /\ Loaded
    /\ input \in PathInputs
    /\ output = NoOutput

\* p(pattern, params), which is constructPath
CallConstructPath ==
    /\ input.fn = "constructPath"
    /\ output = NoOutput
    /\ output' = [fn |-> "constructPath",
                  value |-> constructPath(KeyText(input.pattern), input.params)]
    /\ UNCHANGED <<componentTree, cycle, params, phase, location,
                   navigationIndex, pendingNavigationIndex, mountedComponents,
                   firstBoot, browser, history, calls, ghost, input>>

\* The path constructed is given to matchView(pathname, views), which takes
\* pathname.split('/').slice(1).
MatchConstructed ==
    /\ output.fn = "constructPath"
    /\ output' = [fn |-> "matchView", path |-> output.value,
                  value |-> matchView(Tail(Split(output.value)), input.views)]
    /\ UNCHANGED <<componentTree, cycle, params, phase, location,
                   navigationIndex, pendingNavigationIndex, mountedComponents,
                   firstBoot, browser, history, calls, ghost, input>>

NextPath == CallConstructPath \/ MatchConstructed

SpecPath == InitPath /\ [][NextPath]_vars

\* C21: for every pattern of the table and every params object for its
\* named segments, matching the path p(pattern, params) returns exactly
\* those params.
C21_RoundTrip ==
    (input.fn = "constructPath" /\ output.fn = "matchView") =>
        /\ ~output.value.threw
        /\ DOMAIN output.value.params = NamesOf(input.pattern)
        /\ \A i \in 1..Len(input.params) :
              output.value.params[input.params[i].key] = Str(input.params[i].value)

Components(chain) == [i \in 1..Len(chain) |-> chain[i].C]

\* C23: when a non-bypass navigation that has committed its path to history
\* finishes, Cycle is stable and names the buffer that holds exactly the view
\* chain resolved for that navigation's path.
C23_ViewMatchesURL ==
    [][\A n \in 1..Len(calls) :
          (/\ Steps(n)
           /\ calls'[n].pc = "done"
           /\ ~ghost[n].bypass
           /\ "history" \in ghost'[n].log)
          => /\ cycle' \notin Transitional
             /\ Components(componentTree'[cycle']) = Components(ViewChain(calls[n]))]_vars

\* C24: in every reachable state Phase is not idle while Cycle is
\* transitional (so no navigation that aborts or finishes sets Phase to idle
\* while another one holds the transitional Cycle).
C24_PhaseCycleCoupling == cycle \in Transitional => phase # "idle"

\* C25: a bypass navigation made while a non-bypass navigation N1 is in its
\* beforeLoad phase (Cycle stable) leaves the ticket counter as it is, does
\* not make N1 stale, and does not overwrite the Phase N1 has set.
C25_BypassDoesNotCancel ==
    [][\A n \in 1..Len(calls) :
          (/\ Issued
           /\ ghost'[Len(ghost')].bypass
           /\ calls'[Len(calls')].pc = "done"
           /\ ~ghost[n].bypass
           /\ calls[n].pc \in {"tickBeforeLoad", "beforeLoad"}
           /\ calls[n].currentNavigationIndex = navigationIndex)
          => /\ navigationIndex' = navigationIndex
             /\ calls'[n].currentNavigationIndex = navigationIndex'
             /\ phase' = phase]_vars

\* What a commit writes.
Commits == {"history", "params", "location"}

\* C26: history is pushed or replaced only by a navigation whose ticket is
\* the ticket counter at that moment (a non-bypass call that holds the
\* current ticket, or a bypass call that has just taken its own), and a
\* navigation that aborts pushes nothing and updates neither params nor
\* location, in the step that aborts it or before.
C26_CommitOnlyWhenCurrent ==
    [][/\ history' # history =>
             \/ \E n \in 1..Len(calls) :
                   /\ Steps(n)
                   /\ calls[n].currentNavigationIndex = navigationIndex
                   /\ navigationIndex' = navigationIndex
                   /\ "history" \in ghost'[n].log \ ghost[n].log
             \/ /\ Issued
                /\ ghost'[Len(ghost')].bypass
                /\ "history" \in ghost'[Len(ghost')].log
                /\ navigationIndex' = navigationIndex + 1
       /\ \A n \in 1..Len(calls) :
             (Steps(n) /\ calls'[n].pc \in Aborted) =>
                /\ history' = history
                /\ params' = params
                /\ location' = location
                /\ ghost'[n].log \cap Commits = {}]_vars

\* C26 witness: the first call has aborted as stale and the second one, which
\* holds the current ticket, has pushed its path.
C26_Witness ==
    /\ Len(calls) = 2
    /\ calls[1].pc \in Aborted
    /\ ghost[1].log \cap Commits = {}
    /\ ~ghost[2].bypass
    /\ "history" \in ghost[2].log
    /\ navigationIndex = 2
    /\ Len(history) = 1

\* The relation between the buffers of a tree whose buffer `rebuilt` was
\* built by calculateTree: at an index both buffers have, same component and
\* same key up to eq, and past eq the rebuilt key is the other key plus 1.
KeyRelation(tree, rebuilt) ==
    LET other == IF rebuilt = "a" THEN "b" ELSE "a" IN
    \A i \in 1..Min(Len(tree.a), Len(tree.b)) :
        IF i - 1 <= tree.eq
        THEN tree.a[i].C = tree.b[i].C /\ tree.a[i].key = tree.b[i].key
        ELSE tree[rebuilt][i].key = tree[other][i].key + 1

\* A call runs calculateTree in this step.
Reconciles(n) ==
    /\ Steps(n)
    /\ "calculateTree" \in ghost'[n].log \ ghost[n].log

\* C27: the tree a reconciliation produces satisfies the key relation with
\* the first letter of the new Cycle as the rebuilt buffer; every tree held
\* after a step satisfies it for one of its buffers; and the (depth, key)
\* pairs getCompKeys lists as entering and as leaving have none in common,
\* for the Cycle of that state and for both transitional values.
C27_BufferKeyRelation ==
    [][/\ \A n \in 1..Len(calls) :
             Reconciles(n) => KeyRelation(componentTree', FirstLetter(cycle'))
       /\ cycle' \in Transitional =>
             KeyRelation(componentTree', FirstLetter(cycle'))
       /\ \E letter \in {"a", "b"} : KeyRelation(componentTree', letter)
       /\ \A c \in {cycle'} \cup Transitional :
             getCompKeys(componentTree', c).in
                \cap getCompKeys(componentTree', c).out = {}]_vars

\* C27 witness: during the transition from /users/42 to /, buffer a has been
\* rebuilt with Home at depth 0 while b holds Shell there with key 1: past eq
\* (-1) the rebuilt key is 2, (0, 2) is entering and (0, 1) is leaving.
C27_Witness ==
    /\ cycle = "ab"
    /\ componentTree.eq = -1
    /\ Len(componentTree.a) = 1 /\ Len(componentTree.b) = 2
    /\ componentTree.a[1].C # componentTree.b[1].C
    /\ componentTree.b[1].key = 1
    /\ componentTree.a[1].key = 2
    /\ <<0, 2>> \in getCompKeys(componentTree, cycle).in
    /\ <<0, 1>> \in getCompKeys(componentTree, cycle).out

\* Call n is awaiting a duringLoad or duringRender hook that has not settled.
HookPending(n) ==
    /\ n <= Len(calls)
    /\ \/ calls[n].pc = "duringLoad" /\ calls[n].hooks[calls[n].i].duringLoad
       \/ calls[n].pc = "duringRender" /\ calls[n].hooks[calls[n].i].duringRender

\* Every accepted navigation terminates, and once no call is suspended
\* Phase is idle and Cycle is stable.
Terminates ==
    /\ \A n \in 1..MaxCalls :
          (n <= Len(calls) /\ calls[n].pc \in Suspended)
              ~> (n <= Len(calls) /\ calls[n].pc \in Returned)
    /\ <>[](phase = "idle" /\ cycle \notin Transitional)

\* While a duringLoad or duringRender hook has not settled Cycle is
\* transitional and a navigation that is initiated is rejected.
LockedWhilePending ==
    /\ [](\A n \in 1..MaxCalls : HookPending(n) => cycle \in Transitional)
    /\ [][\A n \in 1..MaxCalls :
             (HookPending(n) /\ Issued) =>
                 calls'[Len(calls')].pc \in {"rejected", "ignored"}]_vars

\* C28: if every hook promise and every view resolution settles in the end,
\* every accepted navigation terminates and the system comes to rest with
\* Phase idle and Cycle stable, whatever the interleaving; and while a
\* duringLoad or duringRender hook has not settled, Cycle stays transitional
\* and every navigation that is initiated is rejected.
C28_Termination == Terminates /\ LockedWhilePending

====
